---- MODULE Spec2Model ----
(***************************************************************************)
(* Bulk analysis orchestrator of the worker (handleBulkAnalyze), with the  *)
(* pre-screen gate (preScreenProfile), the two-stage decode of the scoring *)
(* output (DirectAnalysisExecutor.parseJsonResponse), the batcher          *)
(* (createSmartBatches) and two requests of one user sharing a balance.    *)
(***************************************************************************)
EXTENDS Integers, Sequences, FiniteSets, Bags, TLC

VARIABLES
  req,          \* the request body: profiles, analysis_type, business_id, user_id
  pc,           \* position of the handler
  userResult,   \* result of fetchUserAndCredits
  batchIndex,   \* index (0-based) of the window being processed
  pipe,         \* the pipelines (promises) of the current window
  results,      \* aggregator: successes
  errors,       \* aggregator: failures
  lookups,      \* number of user/business lookups issued
  scrapeCalls,  \* number of profile fetches issued
  scoreCalls,   \* number of scoring provider calls issued
  usageLog,     \* outcome of each usage-counter increment issued
  debitLog,     \* each ledger debit issued: amount and outcome
  pauses,       \* number of inter-window pauses taken
  resp,         \* the HTTP response
  psIn,         \* pre-screen check: the profile given to preScreenProfile
  psOut,        \* pre-screen check: its result
  content,      \* decode check: the text returned by the scoring provider
  decoded,      \* decode check: the result of executeLight's decode
  terminated,   \* number of pipelines that reached a terminal state
  saveCalls,    \* number of writes of an outcome to the backing store issued
  batches,      \* batching check: the result of createSmartBatches
  ledger,       \* two requests of one user: the credit balance of the user
  peers         \* two requests of one user: the position of each request

vars == <<req, pc, userResult, batchIndex, pipe, results, errors, lookups,
          scrapeCalls, scoreCalls, usageLog, debitLog, pauses, resp,
          psIn, psOut, content, decoded, terminated, saveCalls, batches,
          ledger, peers>>

bulkVars_rest == <<req, userResult, batchIndex, pipe, results, errors, lookups,
                   scrapeCalls, scoreCalls, usageLog, debitLog, pauses, resp,
                   terminated, saveCalls>>

-----------------------------------------------------------------------------
(* Bounds of the model *)

\* longest request whose identifiers are chosen freely
MaxShort == 2
\* length of the one long request (more than one window)
LongLen == 9
\* number of freely chosen fragments of a provider text
MaxChunks == 3
\* two requests of one user: most identifiers of a request
MaxPeerProfiles == 2
\* two requests of one user: greatest opening balance of the user
MaxBalance == 3

-----------------------------------------------------------------------------
(* JavaScript values *)

Undefined == "<undefined>"

\* a value is falsy in a condition: undefined or the empty string
Falsy(v) == v \in {Undefined, ""}

JsUndefined == [t |-> "undefined", n |-> 0, s |-> ""]
JsNumber(n) == [t |-> "number", n |-> n, s |-> ""]
JsString(s) == [t |-> "string", n |-> 0, s |-> s]
JsObject == [t |-> "object", n |-> 0, s |-> ""]

-----------------------------------------------------------------------------
(* Pre-screen gate *)

\* followersCount / followingCount, or 999, as a fraction <<numerator, denominator>>
followRatio(profile) ==
  IF profile.followingCount > 0
    THEN <<profile.followersCount, profile.followingCount>>
    ELSE <<999, 1>>

\* ratio < 0.1
BelowTenth(ratio) == ratio[1] * 10 < ratio[2]

\* preScreenProfile with the no-followers rule tried first
preScreenProfile_zeroFirst(profile) ==
  IF profile.followersCount = 0
    THEN [shouldProcess |-> FALSE, earlyScore |-> 0]
  ELSE IF profile.isPrivate /\ profile.followersCount < 1000
    THEN [shouldProcess |-> FALSE, earlyScore |-> 15]
  ELSE IF BelowTenth(followRatio(profile)) /\ profile.followersCount > 1000
    THEN [shouldProcess |-> FALSE, earlyScore |-> 20]
  ELSE [shouldProcess |-> TRUE]

preScreenProfile(profile) ==
  IF profile.isPrivate /\ profile.followersCount < 1000
    THEN [shouldProcess |-> FALSE, earlyScore |-> 15]
  ELSE IF profile.followersCount = 0
    THEN [shouldProcess |-> FALSE, earlyScore |-> 0]
  ELSE IF BelowTenth(followRatio(profile)) /\ profile.followersCount > 1000
    THEN [shouldProcess |-> FALSE, earlyScore |-> 20]
  ELSE [shouldProcess |-> TRUE]

-----------------------------------------------------------------------------
(* Provider texts: a text is a sequence of fragments, each a piece of the   *)
(* text character for character.                                            *)

KS == "\"overall_score\":"
KT == "\"summary_text\":"
SOK == "\"ok\""
WS == " "
Digits == {"0", "2", "4", "7"}

DigitValue(d) == CASE d = "0" -> 0 [] d = "2" -> 2 [] d = "4" -> 4 [] d = "7" -> 7

\* first position from i on that holds no white space
RECURSIVE SkipWS(_, _)
SkipWS(s, i) ==
  IF i <= Len(s) /\ s[i] = WS THEN SkipWS(s, i + 1) ELSE i

\* first position from i on that holds no digit
RECURSIVE DigitRunEnd(_, _)
DigitRunEnd(s, i) ==
  IF i <= Len(s) /\ s[i] \in Digits THEN DigitRunEnd(s, i + 1) ELSE i

\* the number written by the digits s[i..j-1]
RECURSIVE DigitsValue(_, _, _)
DigitsValue(s, i, j) ==
  IF j <= i THEN 0 ELSE DigitsValue(s, i, j - 1) * 10 + DigitValue(s[j - 1])

\* String.prototype.trim
RECURSIVE trim(_)
trim(s) ==
  IF s = <<>> THEN s
  ELSE IF Head(s) = WS THEN trim(Tail(s))
  ELSE IF s[Len(s)] = WS THEN trim(SubSeq(s, 1, Len(s) - 1))
  ELSE s

\* JSON.parse: a value starting at position i. A number (no leading zero), a
\* string, or an object whose keys are "overall_score" and "summary_text".
JsonFail == [ok |-> FALSE, next |-> 0, val |-> JsUndefined,
             score |-> JsUndefined, summary |-> JsUndefined]

RECURSIVE JsonValue(_, _), JsonMembers(_, _, _, _)
JsonValue(s, i) ==
  IF i > Len(s) THEN JsonFail
  ELSE IF s[i] \in Digits THEN
    LET e == DigitRunEnd(s, i) IN
    IF s[i] = "0" /\ e > i + 1 THEN JsonFail
    ELSE [ok |-> TRUE, next |-> e, val |-> JsNumber(DigitsValue(s, i, e)),
          score |-> JsUndefined, summary |-> JsUndefined]
  ELSE IF s[i] = SOK THEN
    [ok |-> TRUE, next |-> i + 1, val |-> JsString("ok"),
     score |-> JsUndefined, summary |-> JsUndefined]
  ELSE IF s[i] = "{" THEN
    LET j == SkipWS(s, i + 1) IN
    IF j <= Len(s) /\ s[j] = "}"
      THEN [ok |-> TRUE, next |-> j + 1, val |-> JsObject,
            score |-> JsUndefined, summary |-> JsUndefined]
      ELSE JsonMembers(s, j, JsUndefined, JsUndefined)
  ELSE JsonFail

\* the members of an object from position i on, up to its closing brace
JsonMembers(s, i, score, summary) ==
  IF i > Len(s) \/ s[i] \notin {KS, KT} THEN JsonFail
  ELSE
    LET v == JsonValue(s, SkipWS(s, i + 1)) IN
    IF ~v.ok THEN JsonFail
    ELSE
      LET k == SkipWS(s, v.next)
          score2 == IF s[i] = KS THEN v.val ELSE score
          summary2 == IF s[i] = KT THEN v.val ELSE summary
      IN
      IF k > Len(s) THEN JsonFail
      ELSE IF s[k] = "}" THEN
        [ok |-> TRUE, next |-> k + 1, val |-> JsObject,
         score |-> score2, summary |-> summary2]
      ELSE IF s[k] = "," THEN JsonMembers(s, SkipWS(s, k + 1), score2, summary2)
      ELSE JsonFail

JSONparse(s) ==
  LET v == JsonValue(s, 1) IN
  IF v.ok /\ v.next = Len(s) + 1 THEN v ELSE JsonFail

\* scoreMatch with a pattern that allows no white space before the digits
RECURSIVE scoreMatch_noSpace(_, _)
scoreMatch_noSpace(s, i) ==
  IF i > Len(s) THEN 0
  ELSE IF s[i] = KS /\ i + 1 <= Len(s) /\ s[i + 1] \in Digits THEN i + 1
  ELSE scoreMatch_noSpace(s, i + 1)

\* content.match(/"overall_score":\s*(\d+)/): the position of the first digit
\* of the first match, or 0
RECURSIVE scoreMatch(_, _)
scoreMatch(s, i) ==
  IF i > Len(s) THEN 0
  ELSE
    LET j == SkipWS(s, i + 1) IN
    IF s[i] = KS /\ j <= Len(s) /\ s[j] \in Digits THEN j
    ELSE scoreMatch(s, i + 1)

\* the text between the quotes of a fragment that is a quote, characters other
\* than a quote, and a quote again
Quoted(f) ==
  CASE f = SOK -> "ok"
    [] f = KS -> "overall_score"
    [] f = KT -> "summary_text"
    [] OTHER -> Undefined

\* content.match(/"summary_text":\s*"([^"]+)"/): the position of the quoted
\* text of the first match, or 0
RECURSIVE summaryMatch(_, _)
summaryMatch(s, i) ==
  IF i > Len(s) THEN 0
  ELSE
    LET j == SkipWS(s, i + 1) IN
    IF s[i] = KT /\ j <= Len(s) /\ Quoted(s[j]) # Undefined THEN j
    ELSE summaryMatch(s, i + 1)

\* the catch branch: the lenient decode; it throws nothing
fallbackRecovery(text) ==
  LET m == scoreMatch(text, 1)
      t == summaryMatch(text, 1)
  IN [threw |-> FALSE,
      overall_score |->
        IF m # 0 THEN JsNumber(DigitsValue(text, m, DigitRunEnd(text, m)))
        ELSE JsNumber(0),
      summary_text |->
        IF t # 0 THEN JsString(Quoted(text[t])) ELSE JsString("Analysis completed")]

\* the try branch: JSON.parse of the trimmed text, then the log entry with its
\* "in" tests, which throw a TypeError when the parsed value is no object
strictDecode(text) ==
  LET parsed == JSONparse(trim(text)) IN
  IF ~parsed.ok \/ parsed.val.t # "object"
    THEN [threw |-> TRUE, overall_score |-> JsUndefined, summary_text |-> JsUndefined]
    ELSE [threw |-> FALSE, overall_score |-> parsed.score,
          summary_text |-> parsed.summary]

parseJsonResponse(text) ==
  IF strictDecode(text).threw THEN fallbackRecovery(text) ELSE strictDecode(text)

-----------------------------------------------------------------------------
(* The bulk handler at rest: the state of its variables while a function is *)
(* checked on its own                                                       *)

NoRequest == [kind |-> "missing", profiles |-> <<>>, analysis_type |-> Undefined,
              business_id |-> Undefined, user_id |-> Undefined]
NoUser == [isValid |-> FALSE, credits |-> 0, error |-> Undefined]
NoResponse == [status |-> 0]

BulkAtRest ==
  /\ req = NoRequest
  /\ userResult = NoUser
  /\ batchIndex = 0
  /\ pipe = <<>>
  /\ results = <<>>
  /\ errors = <<>>
  /\ lookups = 0
  /\ scrapeCalls = 0
  /\ scoreCalls = 0
  /\ usageLog = <<>>
  /\ debitLog = <<>>
  /\ pauses = 0
  /\ resp = NoResponse
  /\ terminated = 0
  /\ saveCalls = 0

Pending == [pending |-> TRUE]
NoLedger == [opening |-> 0, balance |-> 0]
NoPeers == <<>>

-----------------------------------------------------------------------------
(* preScreenProfile on its own *)

FollowerCounts == {0, 1, 500, 999, 1000, 1001, 5000}
FollowingCounts == {0, 1, 100, 10009, 10010, 10011, 60000}

ProfileInputs ==
  [isPrivate : BOOLEAN, followersCount : FollowerCounts,
   followingCount : FollowingCounts]

InitPreScreen ==
  /\ BulkAtRest
  /\ pc = "prescreen"
  /\ psIn \in ProfileInputs
  /\ psOut = Pending
  /\ content = <<>>
  /\ decoded = Pending
  /\ batches = Pending
  /\ ledger = NoLedger
  /\ peers = NoPeers

PreScreen ==
  /\ pc = "prescreen"
  /\ psOut' = preScreenProfile(psIn)
  /\ pc' = "prescreened"
  /\ UNCHANGED <<bulkVars_rest, psIn, content, decoded, batches, ledger, peers>>

NextPreScreen == PreScreen

SpecPreScreen == InitPreScreen /\ [][NextPreScreen]_vars

-----------------------------------------------------------------------------
(* The decode of executeLight on its own *)

Chunks ==
  {<<"x">>, <<WS>>, <<"{">>, <<"}">>, <<",">>, <<KS>>, <<KT>>, <<SOK>>,
   <<"7">>, <<"4", "2">>, <<"0">>}
Prefixes == {<<>>, <<"{">>, <<"{", KS, "7", ",">>}
Suffixes == {<<>>, <<"}">>}

RECURSIVE ChunkTexts(_)
ChunkTexts(n) ==
  IF n = 0 THEN {<<>>}
  ELSE ChunkTexts(n - 1) \cup {t \o c : t \in ChunkTexts(n - 1), c \in Chunks}

ProviderTexts ==
  {p \o t \o s : p \in Prefixes, t \in ChunkTexts(MaxChunks), s \in Suffixes}

InitDecode ==
  /\ BulkAtRest
  /\ pc = "decode"
  /\ psIn = Pending
  /\ psOut = Pending
  /\ content \in ProviderTexts
  /\ decoded = Pending
  /\ batches = Pending
  /\ ledger = NoLedger
  /\ peers = NoPeers

\* executeLight, from the provider's response on: parse, then build the result;
\* an exception of the parse is rethrown to the caller
Decode ==
  /\ pc = "decode"
  /\ decoded' =
       LET analysisData == parseJsonResponse(content) IN
       IF analysisData.threw
         THEN [threw |-> TRUE, overall_score |-> JsUndefined,
               summary_text |-> JsUndefined]
         ELSE [threw |-> FALSE, overall_score |-> analysisData.overall_score,
               summary_text |-> analysisData.summary_text]
  /\ pc' = "decoded"
  /\ UNCHANGED <<bulkVars_rest, psIn, psOut, content, batches, ledger, peers>>

NextDecode == Decode

SpecDecode == InitDecode /\ [][NextDecode]_vars

-----------------------------------------------------------------------------
(* The collaborators of the bulk handler. What a collaborator answers is    *)
(* fixed by the identifier it is asked about.                               *)

Ids == {"", "a", "u/a", "nf", "e", "p", "m", "g", "s"}

\* the username of a profile given by username or by URL
extractUsername(profileUrl) == IF profileUrl = "u/a" THEN "a" ELSE profileUrl

HealthyProfile(username) ==
  [username |-> username, isPrivate |-> FALSE, followersCount |-> 5000,
   followingCount |-> 100]
PrivateProfile(username) ==
  [username |-> username, isPrivate |-> TRUE, followersCount |-> 500,
   followingCount |-> 100]
NoProfile == [username |-> Undefined, isPrivate |-> FALSE, followersCount |-> 0,
              followingCount |-> 0]

\* ProfileDataProvider: the profile, or an error with its message
scrapeInstagramProfile(username) ==
  CASE username = "nf" -> [ok |-> FALSE, profile |-> NoProfile, message |-> "NotFound"]
    [] username = "e" -> [ok |-> FALSE, profile |-> NoProfile, message |-> ""]
    [] username = "" -> [ok |-> FALSE, profile |-> NoProfile, message |-> "Malformed"]
    [] username = "p" -> [ok |-> TRUE, profile |-> PrivateProfile(username),
                          message |-> Undefined]
    [] OTHER -> [ok |-> TRUE, profile |-> HealthyProfile(username),
                 message |-> Undefined]

WellFormedText == <<"{", KS, WS, "4", "2", ",", KT, WS, SOK, "}">>
MalformedText == <<"x", KS, WS, "7", ",", KT, WS, SOK>>
GarbageText == <<"x">>

\* ScoringProvider: the text of the response and its cost, or an error
executeRequest(profile) ==
  CASE profile.username = "s" ->
         [ok |-> FALSE, content |-> <<>>, total_cost |-> 0, message |-> "ModelError"]
    [] profile.username = "m" ->
         [ok |-> TRUE, content |-> MalformedText, total_cost |-> 3, message |-> Undefined]
    [] profile.username = "g" ->
         [ok |-> TRUE, content |-> GarbageText, total_cost |-> 3, message |-> Undefined]
    [] OTHER ->
         [ok |-> TRUE, content |-> WellFormedText, total_cost |-> 3, message |-> Undefined]

-----------------------------------------------------------------------------
(* The profile pipeline *)

NoAnalysis == [overall_score |-> JsUndefined, summary_text |-> JsUndefined]

\* DirectAnalysisExecutor.executeLight: call the provider, decode its text;
\* an error of either is rethrown
executeLight(profile) ==
  LET response == executeRequest(profile) IN
  IF ~response.ok
    THEN [ok |-> FALSE, analysisData |-> NoAnalysis, actual_cost |-> 0,
          message |-> response.message]
    ELSE
      LET analysisData == parseJsonResponse(response.content) IN
      IF analysisData.threw
        THEN [ok |-> FALSE, analysisData |-> NoAnalysis, actual_cost |-> 0,
              message |-> "parse"]
        ELSE [ok |-> TRUE,
              analysisData |-> [overall_score |-> analysisData.overall_score,
                                summary_text |-> analysisData.summary_text],
              actual_cost |-> response.total_cost,
              message |-> Undefined]

NoResult == [run_id |-> Undefined]

\* the AnalysisResponse built by processProfileComplete
analysisResult(username, profileData, directResult) ==
  [run_id |-> username,
   profile |-> [username |-> profileData.username,
                followersCount |-> profileData.followersCount],
   analysis |-> [overall_score |-> directResult.analysisData.overall_score,
                 summary_text |-> directResult.analysisData.summary_text,
                 type |-> "light"],
   credits |-> [used |-> 1, remaining |-> 0,
                actual_cost |-> directResult.actual_cost]]

\* what the callback of batch.map returns
Succeeded(result) ==
  [success |-> TRUE, result |-> result, profile |-> Undefined, error |-> Undefined]
Failed(profile, message) ==
  [success |-> FALSE, result |-> NoResult, profile |-> profile, error |-> message]

\* the whole pipeline of one profile: processProfileComplete inside the
\* try/catch of the callback
processProfileComplete(profile) ==
  LET username == extractUsername(profile)
      scraped == scrapeInstagramProfile(username)
      directResult == executeLight(scraped.profile)
  IN IF ~scraped.ok THEN Failed(profile, scraped.message)
     ELSE IF ~directResult.ok THEN Failed(profile, directResult.message)
     ELSE Succeeded(analysisResult(username, scraped.profile, directResult))

\* the outcome of the pipeline of every identifier, computed once
pipelineOutcome == [profile \in Ids |-> processProfileComplete(profile)]

-----------------------------------------------------------------------------
(* Batching, aggregation and costs *)

MaxProfilesPerRequest == 50
lightBatchSize == 8
defaultBatchSize == 5
creditCostPerAnalysis == 1

Min(a, b) == IF a < b THEN a ELSE b

\* batchSizeOf with a window of nine for the light analysis
batchSizeOf_nine(analysisType) ==
  IF analysisType = "light" THEN lightBatchSize + 1 ELSE defaultBatchSize

batchSizeOf(analysisType) ==
  IF analysisType = "light" THEN lightBatchSize ELSE defaultBatchSize

\* slices with the end of a slice included in it
RECURSIVE slices_inclusive(_, _, _)
slices_inclusive(profiles, i, batchSize) ==
  IF i > Len(profiles) THEN <<>>
  ELSE <<SubSeq(profiles, i, Min(i + batchSize, Len(profiles)))>>
         \o slices_inclusive(profiles, i + batchSize, batchSize)

RECURSIVE slices(_, _, _)
slices(profiles, i, batchSize) ==
  IF i > Len(profiles) THEN <<>>
  ELSE <<SubSeq(profiles, i, Min(i + batchSize - 1, Len(profiles)))>>
         \o slices(profiles, i + batchSize, batchSize)

createSmartBatches(profiles, analysisType) ==
  slices(profiles, 1, batchSizeOf(analysisType))

\* one step of batchResults.forEach
collectOne(acc, batchResult) ==
  IF batchResult.success /\ batchResult.result # NoResult
    THEN [acc EXCEPT !.results = Append(@, batchResult.result)]
  ELSE IF ~Falsy(batchResult.profile) /\ ~Falsy(batchResult.error)
    THEN [acc EXCEPT !.errors =
            Append(@, [profile |-> batchResult.profile, error |-> batchResult.error])]
  ELSE acc

\* collect going through the outcomes of the window from the last to the first
RECURSIVE collect_lastFirst(_, _)
collect_lastFirst(acc, batchResults) ==
  IF batchResults = <<>> THEN acc
  ELSE collect_lastFirst(collectOne(acc, batchResults[Len(batchResults)]),
                         SubSeq(batchResults, 1, Len(batchResults) - 1))

RECURSIVE collect(_, _)
collect(acc, batchResults) ==
  IF batchResults = <<>> THEN acc
  ELSE collect(collectOne(acc, Head(batchResults)), Tail(batchResults))

RECURSIVE sumUsed(_)
sumUsed(rs) == IF rs = <<>> THEN 0 ELSE Head(rs).credits.used + sumUsed(Tail(rs))

RECURSIVE sumActualCost(_)
sumActualCost(rs) ==
  IF rs = <<>> THEN 0 ELSE Head(rs).credits.actual_cost + sumActualCost(Tail(rs))

\* Math.round(x * 100) / 100 of the quotient a / b, in hundredths
roundedHundredths(a, b) == (200 * a + b) \div (2 * b)

RECURSIVE sumRemaining(_)
sumRemaining(rs) ==
  IF rs = <<>> THEN 0 ELSE Head(rs).credits.remaining + sumRemaining(Tail(rs))

\* calculateBulkCosts summing credits.remaining in place of credits.used
calculateBulkCosts_remaining(rs) ==
  IF Len(rs) = 0
    THEN [totalCredits |-> 0, totalActualCost |-> 0, avgCostPerAnalysis |-> 0,
          creditEfficiency |-> 0]
    ELSE [totalCredits |-> sumRemaining(rs),
          totalActualCost |-> sumActualCost(rs),
          avgCostPerAnalysis |-> roundedHundredths(sumRemaining(rs), Len(rs)),
          creditEfficiency |->
            IF sumActualCost(rs) > 0
              THEN roundedHundredths(sumRemaining(rs), sumActualCost(rs))
              ELSE 0]

calculateBulkCosts(rs) ==
  IF Len(rs) = 0
    THEN [totalCredits |-> 0, totalActualCost |-> 0, avgCostPerAnalysis |-> 0,
          creditEfficiency |-> 0]
    ELSE [totalCredits |-> sumUsed(rs),
          totalActualCost |-> sumActualCost(rs),
          avgCostPerAnalysis |-> roundedHundredths(sumUsed(rs), Len(rs)),
          creditEfficiency |->
            IF sumActualCost(rs) > 0
              THEN roundedHundredths(sumUsed(rs), sumActualCost(rs))
              ELSE 0]

-----------------------------------------------------------------------------
(* handleBulkAnalyze *)

RECURSIVE SeqsUpTo(_)
SeqsUpTo(n) ==
  IF n = 0 THEN {<<>>}
  ELSE SeqsUpTo(n - 1) \cup {Append(q, id) : q \in SeqsUpTo(n - 1), id \in Ids}

LongPattern == <<"a", "nf", "p", "a", "e", "m", "a", "a", "s">>
LongProfiles ==
  [i \in 1..LongLen |-> LongPattern[((i - 1) % Len(LongPattern)) + 1]]
\* a request of the greatest length accepted: seven windows
FullProfiles ==
  [i \in 1..MaxProfilesPerRequest |->
     IF i \in {1, MaxProfilesPerRequest} THEN "a" ELSE "nf"]
OverProfiles == [i \in 1..(MaxProfilesPerRequest + 1) |-> "a"]

Requests ==
  [kind : {"array"},
   profiles : SeqsUpTo(MaxShort) \cup {LongProfiles, FullProfiles, OverProfiles},
   analysis_type : {"light", "deep", Undefined},
   business_id : {"b1", Undefined},
   user_id : {"u1", Undefined}]
  \cup
  [kind : {"missing", "notArray"},
   profiles : {<<>>},
   analysis_type : {"light", "deep", Undefined},
   business_id : {"b1", Undefined},
   user_id : {"u1", Undefined}]

\* the balances fetchUserAndCredits may report
Credits == {0, 1, LongLen, MaxProfilesPerRequest}

\* ValidationError without the limit on the number of profiles
ValidationError_noLimit(r) ==
  IF r.kind # "array" \/ Len(r.profiles) = 0
    THEN "profiles array is required and cannot be empty"
  ELSE IF Falsy(r.analysis_type) \/ r.analysis_type # "light"
    THEN "analysis_type must be light"
  ELSE IF Falsy(r.business_id) \/ Falsy(r.user_id)
    THEN "business_id and user_id are required"
  ELSE "none"

\* the basic validation: the message of the 400 response, or "none"
ValidationError(r) ==
  IF r.kind # "array" \/ Len(r.profiles) = 0
    THEN "profiles array is required and cannot be empty"
  ELSE IF Falsy(r.analysis_type) \/ r.analysis_type # "light"
    THEN "analysis_type must be light"
  ELSE IF Falsy(r.business_id) \/ Falsy(r.user_id)
    THEN "business_id and user_id are required"
  ELSE IF Len(r.profiles) > MaxProfilesPerRequest
    THEN "Maximum 50 profiles per bulk request"
  ELSE "none"

smartBatches == createSmartBatches(req.profiles, req.analysis_type)
batch == smartBatches[batchIndex + 1]

Running == [st |-> "fetching", out |-> Failed(Undefined, Undefined)]

\* batch.map(async ...): every pipeline of the window runs up to its fetch
startedWindow(k) == [i \in 1..Len(smartBatches[k + 1]) |-> Running]

\* ErrorResponse carrying the results aggregated so far
ErrorResponse_partial(status, message) ==
  [status |-> status, success |-> FALSE, error |-> message, results |-> results]

ErrorResponse(status, message) ==
  [status |-> status, success |-> FALSE, error |-> message]

\* bulkResult reporting the balance of the ledger as the debits made left it
bulkResult_ledger(rs, es, used) ==
  [status |-> 200, success |-> TRUE,
   total_requested |-> Len(req.profiles),
   successful |-> Len(rs),
   failed |-> Len(es),
   results |-> rs,
   errors |-> es,
   credits_used |-> used,
   credits_remaining |->
     userResult.credits
       - (IF debitLog # <<>> /\ debitLog[1].ok THEN debitLog[1].amount ELSE 0)]

\* the final response, built from the aggregator and the costs
bulkResult(rs, es, creditsUsed) ==
  [status |-> 200, success |-> TRUE,
   total_requested |-> Len(req.profiles),
   successful |-> Len(rs),
   failed |-> Len(es),
   results |-> rs,
   errors |-> es,
   credits_used |-> creditsUsed,
   credits_remaining |-> userResult.credits - creditsUsed]

Init ==
  /\ req \in Requests
  /\ pc = "received"
  /\ userResult = NoUser
  /\ batchIndex = 0
  /\ pipe = <<>>
  /\ results = <<>>
  /\ errors = <<>>
  /\ lookups = 0
  /\ scrapeCalls = 0
  /\ scoreCalls = 0
  /\ usageLog = <<>>
  /\ debitLog = <<>>
  /\ pauses = 0
  /\ resp = NoResponse
  /\ terminated = 0
  /\ saveCalls = 0
  /\ psIn = Pending
  /\ psOut = Pending
  /\ content = <<>>
  /\ decoded = Pending
  /\ batches = Pending
  /\ ledger = NoLedger
  /\ peers = NoPeers

\* parse and validate the request; a valid one issues the two lookups
Validate ==
  /\ pc = "received"
  /\ IF ValidationError(req) # "none"
       THEN /\ resp' = ErrorResponse(400, ValidationError(req))
            /\ pc' = "done"
            /\ UNCHANGED lookups
       ELSE /\ lookups' = lookups + 1
            /\ pc' = "lookup"
            /\ UNCHANGED resp
  /\ UNCHANGED <<req, userResult, batchIndex, pipe, results, errors,
                 scrapeCalls, scoreCalls, usageLog, debitLog, pauses, psIn,
                 psOut, content, decoded, terminated, saveCalls, batches,
                 ledger, peers>>

\* LookupReturn without the credit check
LookupReturn_noCheck(isValid, credits) ==
  /\ pc = "lookup"
  /\ userResult' = [isValid |-> isValid, credits |-> credits,
                    error |-> IF isValid THEN Undefined ELSE "User not found"]
  /\ IF ~isValid
       THEN /\ resp' = ErrorResponse(400, "User not found")
            /\ pc' = "done"
            /\ UNCHANGED <<pipe, scrapeCalls>>
     ELSE IF FALSE
       THEN /\ resp' = ErrorResponse(402, "Insufficient credits")
            /\ pc' = "done"
            /\ UNCHANGED <<pipe, scrapeCalls>>
     ELSE /\ pipe' = startedWindow(0)
          /\ scrapeCalls' = scrapeCalls + Len(smartBatches[1])
          /\ pc' = "window"
          /\ UNCHANGED resp
  /\ UNCHANGED <<req, batchIndex, results, errors, lookups, scoreCalls,
                 usageLog, debitLog, pauses, psIn, psOut, content, decoded,
                 terminated, saveCalls, batches, ledger, peers>>

\* LookupReturn rejecting a balance equal to the cost as well
LookupReturn_strict(isValid, credits) ==
  /\ pc = "lookup"
  /\ userResult' = [isValid |-> isValid, credits |-> credits,
                    error |-> IF isValid THEN Undefined ELSE "User not found"]
  /\ IF ~isValid
       THEN /\ resp' = ErrorResponse(400, "User not found")
            /\ pc' = "done"
            /\ UNCHANGED <<pipe, scrapeCalls>>
     ELSE IF credits <= Len(req.profiles) * creditCostPerAnalysis
       THEN /\ resp' = ErrorResponse(402, "Insufficient credits")
            /\ pc' = "done"
            /\ UNCHANGED <<pipe, scrapeCalls>>
     ELSE /\ pipe' = startedWindow(0)
          /\ scrapeCalls' = scrapeCalls + Len(smartBatches[1])
          /\ pc' = "window"
          /\ UNCHANGED resp
  /\ UNCHANGED <<req, batchIndex, results, errors, lookups, scoreCalls,
                 usageLog, debitLog, pauses, psIn, psOut, content, decoded,
                 terminated, saveCalls, batches, ledger, peers>>

\* the lookups return: user check, credit check, then the first window starts
LookupReturn(isValid, credits) ==
  /\ pc = "lookup"
  /\ userResult' = [isValid |-> isValid, credits |-> credits,
                    error |-> IF isValid THEN Undefined ELSE "User not found"]
  /\ IF ~isValid
       THEN /\ resp' = ErrorResponse(400, "User not found")
            /\ pc' = "done"
            /\ UNCHANGED <<pipe, scrapeCalls>>
     ELSE IF credits < Len(req.profiles) * creditCostPerAnalysis
       THEN /\ resp' = ErrorResponse(402, "Insufficient credits")
            /\ pc' = "done"
            /\ UNCHANGED <<pipe, scrapeCalls>>
     ELSE /\ pipe' = startedWindow(0)
          /\ scrapeCalls' = scrapeCalls + Len(smartBatches[1])
          /\ pc' = "window"
          /\ UNCHANGED resp
  /\ UNCHANGED <<req, batchIndex, results, errors, lookups, scoreCalls,
                 usageLog, debitLog, pauses, psIn, psOut, content, decoded,
                 terminated, saveCalls, batches, ledger, peers>>

\* a lookup throws: the catch of the handler answers 500
LookupThrows ==
  /\ pc = "lookup"
  /\ resp' = ErrorResponse(500, "lookup failed")
  /\ pc' = "done"
  /\ UNCHANGED <<req, userResult, batchIndex, pipe, results, errors, lookups,
                 scrapeCalls, scoreCalls, usageLog, debitLog, pauses, psIn,
                 psOut, content, decoded, terminated, saveCalls, batches,
                 ledger, peers>>

\* FetchReturn with the scoring call issued after a failed fetch too
FetchReturn_scoreAnyway(i) ==
  /\ pc = "window"
  /\ i \in DOMAIN pipe
  /\ pipe[i].st = "fetching"
  /\ pipe' = [pipe EXCEPT ![i].st = "scoring"]
  /\ scoreCalls' = scoreCalls + 1
  /\ UNCHANGED <<req, pc, userResult, batchIndex, results, errors, lookups,
                 scrapeCalls, usageLog, debitLog, pauses, resp, psIn, psOut,
                 content, decoded, terminated, saveCalls, batches, ledger,
                 peers>>

\* the fetch of pipeline i returns: on success the scoring call is issued
FetchReturn(i) ==
  /\ pc = "window"
  /\ i \in DOMAIN pipe
  /\ pipe[i].st = "fetching"
  /\ LET scraped == scrapeInstagramProfile(extractUsername(batch[i])) IN
     IF scraped.ok
       THEN /\ pipe' = [pipe EXCEPT ![i].st = "scoring"]
            /\ scoreCalls' = scoreCalls + 1
            /\ UNCHANGED terminated
       ELSE /\ pipe' = [pipe EXCEPT ![i] =
                          [st |-> "done", out |-> Failed(batch[i], scraped.message)]]
            /\ terminated' = terminated + 1
            /\ UNCHANGED scoreCalls
  /\ UNCHANGED <<req, pc, userResult, batchIndex, results, errors, lookups,
                 scrapeCalls, usageLog, debitLog, pauses, resp, psIn, psOut,
                 content, decoded, saveCalls, batches, ledger,
                 peers>>

\* the scoring call of pipeline i returns: the pipeline ends
ScoreReturn(i) ==
  /\ pc = "window"
  /\ i \in DOMAIN pipe
  /\ pipe[i].st = "scoring"
  /\ pipe' = [pipe EXCEPT ![i] =
                [st |-> "done", out |-> pipelineOutcome[batch[i]]]]
  /\ terminated' = terminated + 1
  /\ UNCHANGED <<req, pc, userResult, batchIndex, results, errors, lookups,
                 scrapeCalls, scoreCalls, usageLog, debitLog, pauses, resp,
                 psIn, psOut, content, decoded, saveCalls,
                 batches, ledger, peers>>

\* WindowDone without the wait for every pipeline of the window
WindowDone_noWait ==
  /\ pc = "window"
  /\ LET acc == collect([results |-> results, errors |-> errors],
                        [i \in DOMAIN pipe |-> pipe[i].out])
     IN /\ results' = acc.results
        /\ errors' = acc.errors
  /\ pipe' = <<>>
  /\ pc' = IF batchIndex < Len(smartBatches) - 1 THEN "pause" ELSE "keys"
  /\ UNCHANGED <<req, userResult, batchIndex, lookups, scrapeCalls,
                 scoreCalls, usageLog, debitLog, pauses, resp, psIn, psOut,
                 content, decoded, terminated, saveCalls, batches, ledger,
                 peers>>

\* WindowDone with a pause after every window, the last one too
WindowDone_alwaysPause ==
  /\ pc = "window"
  /\ \A i \in DOMAIN pipe : pipe[i].st = "done"
  /\ LET acc == collect([results |-> results, errors |-> errors],
                        [i \in DOMAIN pipe |-> pipe[i].out])
     IN /\ results' = acc.results
        /\ errors' = acc.errors
  /\ pipe' = <<>>
  /\ pc' = "pause"
  /\ UNCHANGED <<req, userResult, batchIndex, lookups, scrapeCalls,
                 scoreCalls, usageLog, debitLog, pauses, resp, psIn, psOut,
                 content, decoded, terminated, saveCalls, batches, ledger,
                 peers>>

\* Promise.all resolves: collect the window, then pause or go on to the keys
WindowDone ==
  /\ pc = "window"
  /\ \A i \in DOMAIN pipe : pipe[i].st = "done"
  /\ LET acc == collect([results |-> results, errors |-> errors],
                        [i \in DOMAIN pipe |-> pipe[i].out])
     IN /\ results' = acc.results
        /\ errors' = acc.errors
  /\ pipe' = <<>>
  /\ pc' = IF batchIndex < Len(smartBatches) - 1 THEN "pause" ELSE "keys"
  /\ UNCHANGED <<req, userResult, batchIndex, lookups, scrapeCalls,
                 scoreCalls, usageLog, debitLog, pauses, resp, psIn, psOut,
                 content, decoded, terminated, saveCalls, batches, ledger,
                 peers>>

\* the pause between two windows ends: the next window starts
PauseElapsed ==
  /\ pc = "pause"
  /\ pauses' = pauses + 1
  /\ batchIndex' = batchIndex + 1
  /\ pipe' = startedWindow(batchIndex + 1)
  /\ scrapeCalls' = scrapeCalls + Len(smartBatches[batchIndex + 2])
  /\ pc' = "window"
  /\ UNCHANGED <<req, userResult, results, errors, lookups, scoreCalls,
                 usageLog, debitLog, resp, psIn, psOut, content, decoded,
                 terminated, saveCalls, batches, ledger, peers>>

\* the costs of the successes, as the handler computes them before the debit
creditsUsed == calculateBulkCosts(results).totalCredits

\* KeysReturn issuing a usage increment with no result to account
KeysReturn_always ==
  /\ pc = "keys"
  /\ pc' = "usage"
  /\ UNCHANGED <<req, userResult, batchIndex, pipe, results, errors, lookups,
                 scrapeCalls, scoreCalls, usageLog, debitLog, pauses, resp,
                 psIn, psOut, content, decoded, terminated, saveCalls, batches,
                 ledger, peers>>

\* the keys of the store are read: the first usage increment is issued, or,
\* with no success, nothing is left to account and the response is built
KeysReturn ==
  /\ pc = "keys"
  /\ IF results # <<>>
       THEN /\ pc' = "usage"
            /\ UNCHANGED resp
       ELSE /\ pc' = "done"
            /\ resp' = bulkResult(results, errors, creditsUsed)
  /\ UNCHANGED <<req, userResult, batchIndex, pipe, results, errors, lookups,
                 scrapeCalls, scoreCalls, usageLog, debitLog, pauses, psIn,
                 psOut, content, decoded, terminated, saveCalls, batches,
                 ledger, peers>>

\* reading a key throws: the catch of the handler answers 500
KeysThrow ==
  /\ pc = "keys"
  /\ resp' = ErrorResponse(500, "config failed")
  /\ pc' = "done"
  /\ UNCHANGED <<req, userResult, batchIndex, pipe, results, errors, lookups,
                 scrapeCalls, scoreCalls, usageLog, debitLog, pauses, psIn,
                 psOut, content, decoded, terminated, saveCalls, batches,
                 ledger, peers>>

\* UsageReturn with the loop left after its first increment
UsageReturn_once(outcome) ==
  /\ pc = "usage"
  /\ outcome \in {"ok", "nonok"}
  /\ usageLog' = Append(usageLog, outcome)
  /\ IF creditsUsed > 0
       THEN /\ pc' = "debit"
            /\ UNCHANGED resp
       ELSE /\ pc' = "done"
            /\ resp' = bulkResult(results, errors, creditsUsed)
  /\ UNCHANGED <<req, userResult, batchIndex, pipe, results, errors, lookups,
                 scrapeCalls, scoreCalls, debitLog, pauses, psIn, psOut,
                 content, decoded, terminated, saveCalls, batches, ledger,
                 peers>>

\* the pending usage increment returns, with an OK status or not: it is logged,
\* then the next increment is issued, or the debit, or the response is built
UsageReturn(outcome) ==
  /\ pc = "usage"
  /\ outcome \in {"ok", "nonok"}
  /\ usageLog' = Append(usageLog, outcome)
  /\ IF Len(usageLog) + 1 < Len(results)
       THEN UNCHANGED <<pc, resp>>
     ELSE IF creditsUsed > 0
       THEN /\ pc' = "debit"
            /\ UNCHANGED resp
     ELSE /\ pc' = "done"
          /\ resp' = bulkResult(results, errors, creditsUsed)
  /\ UNCHANGED <<req, userResult, batchIndex, pipe, results, errors, lookups,
                 scrapeCalls, scoreCalls, debitLog, pauses, psIn, psOut,
                 content, decoded, terminated, saveCalls, batches, ledger,
                 peers>>

\* the pending usage increment throws (the fetch rejects): the catch of the
\* handler answers 500
UsageThrows ==
  /\ pc = "usage"
  /\ usageLog' = Append(usageLog, "throw")
  /\ resp' = ErrorResponse(500, "fetch failed")
  /\ pc' = "done"
  /\ UNCHANGED <<req, userResult, batchIndex, pipe, results, errors, lookups,
                 scrapeCalls, scoreCalls, debitLog, pauses, psIn, psOut,
                 content, decoded, terminated, saveCalls, batches, ledger,
                 peers>>

\* DebitReturn with one debit of one credit for every result
DebitReturn_perProfile(ok) ==
  /\ pc = "debit"
  /\ debitLog' = Append(debitLog, [amount |-> creditCostPerAnalysis, ok |-> ok])
  /\ IF Len(debitLog) + 1 < Len(results)
       THEN UNCHANGED <<pc, resp>>
       ELSE /\ resp' = bulkResult(results, errors, creditsUsed)
            /\ pc' = "done"
  /\ UNCHANGED <<req, userResult, batchIndex, pipe, results, errors, lookups,
                 scrapeCalls, scoreCalls, usageLog, pauses, psIn, psOut,
                 content, decoded, terminated, saveCalls, batches, ledger,
                 peers>>

\* DebitReturn with a failed debit escaping to the catch of the handler
DebitReturn_fatal(ok) ==
  /\ pc = "debit"
  /\ debitLog' = Append(debitLog, [amount |-> creditsUsed, ok |-> ok])
  /\ resp' = IF ok THEN bulkResult(results, errors, creditsUsed)
             ELSE ErrorResponse(500, "credit update failed")
  /\ pc' = "done"
  /\ UNCHANGED <<req, userResult, batchIndex, pipe, results, errors, lookups,
                 scrapeCalls, scoreCalls, usageLog, pauses, psIn, psOut,
                 content, decoded, terminated, saveCalls, batches, ledger,
                 peers>>

\* updateCreditsAndTransaction returns or throws; a throw is logged only. Then
\* the response is built
DebitReturn(ok) ==
  /\ pc = "debit"
  /\ debitLog' = Append(debitLog, [amount |-> creditsUsed, ok |-> ok])
  /\ resp' = bulkResult(results, errors, creditsUsed)
  /\ pc' = "done"
  /\ UNCHANGED <<req, userResult, batchIndex, pipe, results, errors, lookups,
                 scrapeCalls, scoreCalls, usageLog, pauses, psIn, psOut,
                 content, decoded, terminated, saveCalls, batches, ledger,
                 peers>>

Next ==
  \/ Validate
  \/ \E isValid \in BOOLEAN, credits \in Credits : LookupReturn(isValid, credits)
  \/ LookupThrows
  \/ \E i \in 1..lightBatchSize : FetchReturn(i)
  \/ \E i \in 1..lightBatchSize : ScoreReturn(i)
  \/ WindowDone
  \/ PauseElapsed
  \/ KeysReturn
  \/ KeysThrow
  \/ \E outcome \in {"ok", "nonok"} : UsageReturn(outcome)
  \/ UsageThrows
  \/ \E ok \in BOOLEAN : DebitReturn(ok)

Spec == Init /\ [][Next]_vars

-----------------------------------------------------------------------------
(* handleBulkAnalyze with every external call returning in the end, but the *)
(* fetch of the identifier "h", which never returns                         *)

HangingId == "h"

LongHangProfiles ==
  [i \in 1..LongLen |-> IF i = 2 THEN HangingId ELSE LongProfiles[i]]

\* accepted requests, with and without an identifier whose fetch hangs
LiveRequests ==
  [kind : {"array"},
   profiles : {<<id>> : id \in Ids \ {""}}
                \cup {<<"a", "nf">>, <<"s", "a">>, <<"a", "a">>,
                      <<HangingId>>, <<"a", HangingId>>, <<HangingId, "nf">>,
                      LongProfiles, LongHangProfiles},
   analysis_type : {"light"},
   business_id : {"b1"},
   user_id : {"u1"}]

\* the fetch of pipeline i of the current window never returns
Hangs(i) == pc = "window" /\ i \in DOMAIN pipe /\ batch[i] = HangingId

InitLive ==
  /\ req \in LiveRequests
  /\ pc = "received"
  /\ userResult = NoUser
  /\ batchIndex = 0
  /\ pipe = <<>>
  /\ results = <<>>
  /\ errors = <<>>
  /\ lookups = 0
  /\ scrapeCalls = 0
  /\ scoreCalls = 0
  /\ usageLog = <<>>
  /\ debitLog = <<>>
  /\ pauses = 0
  /\ resp = NoResponse
  /\ terminated = 0
  /\ saveCalls = 0
  /\ psIn = Pending
  /\ psOut = Pending
  /\ content = <<>>
  /\ decoded = Pending
  /\ batches = Pending
  /\ ledger = NoLedger
  /\ peers = NoPeers

NextLive ==
  \/ Validate
  \/ \E isValid \in BOOLEAN, credits \in Credits : LookupReturn(isValid, credits)
  \/ LookupThrows
  \/ \E i \in 1..lightBatchSize : FetchReturn(i) /\ ~Hangs(i)
  \/ \E i \in 1..lightBatchSize : ScoreReturn(i)
  \/ WindowDone
  \/ PauseElapsed
  \/ KeysReturn
  \/ KeysThrow
  \/ \E outcome \in {"ok", "nonok"} : UsageReturn(outcome)
  \/ UsageThrows
  \/ \E ok \in BOOLEAN : DebitReturn(ok)

\* a step that can be taken is taken in the end: the timers fire and every
\* call but the hanging fetch returns or throws
SpecLive == InitLive /\ [][NextLive]_vars /\ WF_vars(NextLive)

-----------------------------------------------------------------------------
(* createSmartBatches on its own *)

\* the identifier sequences of every length the handler accepts, and the empty
\* one
BatchInputs ==
  {[i \in 1..n |-> LongPattern[((i - 1) % Len(LongPattern)) + 1]] :
     n \in 0..MaxProfilesPerRequest}

InitBatches ==
  /\ req \in [kind : {"array"}, profiles : BatchInputs,
              analysis_type : {"light", "deep"}, business_id : {"b1"},
              user_id : {"u1"}]
  /\ pc = "batching"
  /\ userResult = NoUser
  /\ batchIndex = 0
  /\ pipe = <<>>
  /\ results = <<>>
  /\ errors = <<>>
  /\ lookups = 0
  /\ scrapeCalls = 0
  /\ scoreCalls = 0
  /\ usageLog = <<>>
  /\ debitLog = <<>>
  /\ pauses = 0
  /\ resp = NoResponse
  /\ terminated = 0
  /\ saveCalls = 0
  /\ psIn = Pending
  /\ psOut = Pending
  /\ content = <<>>
  /\ decoded = Pending
  /\ batches = Pending
  /\ ledger = NoLedger
  /\ peers = NoPeers

Batch ==
  /\ pc = "batching"
  /\ batches' = smartBatches
  /\ pc' = "batched"
  /\ UNCHANGED <<req, userResult, batchIndex, pipe, results, errors, lookups,
                 scrapeCalls, scoreCalls, usageLog, debitLog, pauses, resp,
                 psIn, psOut, content, decoded, terminated, saveCalls, ledger,
                 peers>>

NextBatches == Batch

SpecBatches == InitBatches /\ [][NextBatches]_vars

-----------------------------------------------------------------------------
(* Two bulk requests of one user, run by the worker at the same time. Of    *)
(* each request the steps that read or write the balance are kept: the      *)
(* lookup with the credit check, the windows, the debit.                    *)

PeerIds == {1, 2}

\* the ledger debit: the amount is taken off the balance
updateCreditsAndTransaction(balance, amount) == balance - amount

PeerAtStart(n) ==
  [pc |-> "lookup", profileCount |-> n, credits |-> 0, creditsUsed |-> 0,
   debit |-> "none", status |-> 0]

InitTwoRequests ==
  /\ BulkAtRest
  /\ pc = "peers"
  /\ psIn = Pending
  /\ psOut = Pending
  /\ content = <<>>
  /\ decoded = Pending
  /\ batches = Pending
  /\ ledger \in {[opening |-> b, balance |-> b] : b \in 0..MaxBalance}
  /\ peers \in [PeerIds -> {PeerAtStart(n) : n \in 1..MaxPeerProfiles}]

\* PeerLookupReturn without the credit check
PeerLookupReturn_noCheck(r) ==
  /\ peers[r].pc = "lookup"
  /\ peers' = [peers EXCEPT ![r] =
                 [@ EXCEPT !.credits = ledger.balance, !.pc = "windows"]]
  /\ UNCHANGED <<bulkVars_rest, pc, psIn, psOut, content, decoded, batches,
                 ledger>>

\* the lookups of request r return the balance of the moment; the credit
\* check rejects the request or lets it start its windows
PeerLookupReturn(r) ==
  /\ peers[r].pc = "lookup"
  /\ peers' = [peers EXCEPT ![r] =
                 IF ledger.balance < @.profileCount * creditCostPerAnalysis
                   THEN [@ EXCEPT !.credits = ledger.balance, !.pc = "done",
                                  !.status = 402]
                   ELSE [@ EXCEPT !.credits = ledger.balance, !.pc = "windows"]]
  /\ UNCHANGED <<bulkVars_rest, pc, psIn, psOut, content, decoded, batches,
                 ledger>>

\* the windows of request r end with some of its profiles succeeding; the
\* costs are computed; with nothing to debit the response is built
PeerWindowsDone(r, successes) ==
  /\ peers[r].pc = "windows"
  /\ successes \in 0..peers[r].profileCount
  /\ peers' = [peers EXCEPT ![r] =
                 IF successes * creditCostPerAnalysis > 0
                   THEN [@ EXCEPT !.creditsUsed = successes * creditCostPerAnalysis,
                                  !.pc = "debit"]
                   ELSE [@ EXCEPT !.pc = "done", !.status = 200]]
  /\ UNCHANGED <<bulkVars_rest, pc, psIn, psOut, content, decoded, batches,
                 ledger>>

\* the debit of request r is applied, or throws and is logged only; then the
\* response is built
PeerDebitReturn(r, ok) ==
  /\ peers[r].pc = "debit"
  /\ ledger' = IF ok
                 THEN [ledger EXCEPT !.balance =
                         updateCreditsAndTransaction(@, peers[r].creditsUsed)]
                 ELSE ledger
  /\ peers' = [peers EXCEPT ![r] =
                 [@ EXCEPT !.debit = IF ok THEN "ok" ELSE "failed",
                           !.pc = "done", !.status = 200]]
  /\ UNCHANGED <<bulkVars_rest, pc, psIn, psOut, content, decoded, batches>>

NextTwoRequests ==
  \/ \E r \in PeerIds : PeerLookupReturn(r)
  \/ \E r \in PeerIds, successes \in 0..MaxPeerProfiles : PeerWindowsDone(r, successes)
  \/ \E r \in PeerIds, ok \in BOOLEAN : PeerDebitReturn(r, ok)

SpecTwoRequests == InitTwoRequests /\ [][NextTwoRequests]_vars

-----------------------------------------------------------------------------
(* handleAnalyze: the analysis of a single profile *)

singleVars_rest == <<batchIndex, results, errors, usageLog, pauses, terminated,
                     psIn, psOut, content, decoded, batches, ledger, peers>>

\* the normalized request
SingleRequests ==
  [username : {"a", "p", "s"}, analysis_type : {"light", "deep"},
   business_id : {"b1"}, user_id : {"u1"}]

\* an error message, word by word
NotFoundMessage == <<"Profile", "not", "found">>
NotExistMessage == <<"User", "does", "not", "exist">>
TimeoutMessage == <<"Request", "timeout">>
NoUsernameMessage ==
  <<"Profile", "scraping", "failed", "-", "no", "username", "returned">>

\* the messages scrapeInstagramProfile may throw
ScrapeMessages == {NotFoundMessage, NotExistMessage, TimeoutMessage}

\* String.prototype.includes
includes(message, needle) ==
  \E i \in 1..(Len(message) - Len(needle) + 1) :
    SubSeq(message, i, i + Len(needle) - 1) = needle

\* isNotFound looking for 'not found' only
isNotFound_oneNeedle(message) == includes(message, <<"not", "found">>)

\* the test of the catch of the fetch: the profile was not found
isNotFound(message) ==
  \/ includes(message, <<"not", "found">>)
  \/ includes(message, <<"does", "not", "exist">>)

\* what the fetch of the request may give: a profile, a profile without a
\* username, or an error
SingleFetchOutcomes ==
  {[ok |-> TRUE, profile |-> scrapeInstagramProfile(req.username).profile,
    message |-> <<>>],
   [ok |-> TRUE, profile |-> NoProfile, message |-> <<>>]}
  \cup {[ok |-> FALSE, profile |-> NoProfile, message |-> m] : m \in ScrapeMessages}

SinglePipeline(st, error, saved) == <<[st |-> st, error |-> error, saved |-> saved]>>

\* the response with the analysis, of the pre-screen or of the scoring
SingleResult(runId, used) ==
  [status |-> 200, success |-> TRUE,
   data |-> [run_id |-> runId,
             credits |-> [used |-> used, remaining |-> userResult.credits - used]]]

InitSingle ==
  /\ req \in SingleRequests
  /\ pc = "received"
  /\ userResult = NoUser
  /\ pipe = SinglePipeline("pending", <<>>, FALSE)
  /\ lookups = 0
  /\ scrapeCalls = 0
  /\ scoreCalls = 0
  /\ saveCalls = 0
  /\ debitLog = <<>>
  /\ resp = NoResponse
  /\ batchIndex = 0
  /\ results = <<>>
  /\ errors = <<>>
  /\ usageLog = <<>>
  /\ pauses = 0
  /\ terminated = 0
  /\ psIn = Pending
  /\ psOut = Pending
  /\ content = <<>>
  /\ decoded = Pending
  /\ batches = Pending
  /\ ledger = NoLedger
  /\ peers = NoPeers

\* the request is parsed and the two lookups are issued
SingleStart ==
  /\ pc = "received"
  /\ lookups' = lookups + 1
  /\ pc' = "lookup"
  /\ UNCHANGED <<req, userResult, pipe, scrapeCalls, scoreCalls, saveCalls,
                 debitLog, resp, singleVars_rest>>

\* the lookups return: user check, analysis type, credit check, then the fetch
SingleLookupReturn(isValid, credits) ==
  /\ pc = "lookup"
  /\ userResult' = [isValid |-> isValid, credits |-> credits,
                    error |-> IF isValid THEN Undefined ELSE "User not found"]
  /\ IF ~isValid
       THEN /\ resp' = ErrorResponse(400, "User not found")
            /\ pc' = "done"
            /\ UNCHANGED <<pipe, scrapeCalls>>
     ELSE IF req.analysis_type # "light"
       THEN /\ resp' = ErrorResponse(400, "Only light analysis is supported")
            /\ pc' = "done"
            /\ UNCHANGED <<pipe, scrapeCalls>>
     ELSE IF credits < creditCostPerAnalysis
       THEN /\ resp' = ErrorResponse(400, "Insufficient credits")
            /\ pc' = "done"
            /\ UNCHANGED <<pipe, scrapeCalls>>
     ELSE /\ pipe' = SinglePipeline("fetching", <<>>, FALSE)
          /\ scrapeCalls' = scrapeCalls + 1
          /\ pc' = "fetching"
          /\ UNCHANGED resp
  /\ UNCHANGED <<req, lookups, scoreCalls, saveCalls, debitLog, singleVars_rest>>

\* a lookup throws: the catch of the handler answers 500
SingleLookupThrows ==
  /\ pc = "lookup"
  /\ resp' = ErrorResponse(500, "lookup failed")
  /\ pc' = "done"
  /\ UNCHANGED <<req, userResult, pipe, lookups, scrapeCalls, scoreCalls,
                 saveCalls, debitLog, singleVars_rest>>

\* the fetch returns or throws. An error, or a profile without a username, goes
\* to the catch: a not-found error issues the debit of one credit, any other
\* is answered 400. A profile is pre-screened: answered at once, or scored
SingleFetchReturn(outcome) ==
  /\ pc = "fetching"
  /\ outcome \in SingleFetchOutcomes
  /\ LET failed == ~outcome.ok \/ Falsy(outcome.profile.username)
         message == IF outcome.ok THEN NoUsernameMessage ELSE outcome.message
     IN
     IF failed /\ isNotFound(message)
       THEN /\ pipe' = SinglePipeline("charging", message, FALSE)
            /\ pc' = "charging"
            /\ UNCHANGED <<resp, scoreCalls>>
     ELSE IF failed
       THEN /\ pipe' = SinglePipeline("failed", message, FALSE)
            /\ resp' = ErrorResponse(400, "Profile scraping failed")
            /\ pc' = "done"
            /\ UNCHANGED scoreCalls
     ELSE IF ~preScreenProfile(outcome.profile).shouldProcess
       THEN /\ pipe' = SinglePipeline("prescreened", <<>>, FALSE)
            /\ resp' = SingleResult("pre-screen", 0)
            /\ pc' = "done"
            /\ UNCHANGED scoreCalls
     ELSE /\ pipe' = SinglePipeline("scoring", <<>>, FALSE)
          /\ scoreCalls' = scoreCalls + 1
          /\ pc' = "scoring"
          /\ UNCHANGED resp
  /\ UNCHANGED <<req, userResult, lookups, scrapeCalls, saveCalls, debitLog,
                 singleVars_rest>>

\* the debit for the profile not found returns, answered 404, or throws: the
\* throw is logged and the request is answered 400 as any failed fetch
SingleChargeReturn(ok) ==
  /\ pc = "charging"
  /\ debitLog' = Append(debitLog, [amount |-> 1, ok |-> ok])
  /\ pipe' = SinglePipeline("failed", pipe[1].error, FALSE)
  /\ resp' = IF ok THEN ErrorResponse(404, "User does not exist. 1 token has been charged.")
             ELSE ErrorResponse(400, "Profile scraping failed")
  /\ pc' = "done"
  /\ UNCHANGED <<req, userResult, lookups, scrapeCalls, scoreCalls, saveCalls,
                 singleVars_rest>>

\* executeLight returns, and the save is issued, or throws: answered 500
SingleScoreReturn ==
  /\ pc = "scoring"
  /\ IF executeLight(scrapeInstagramProfile(req.username).profile).ok
       THEN /\ pipe' = SinglePipeline("saving", <<>>, FALSE)
            /\ saveCalls' = saveCalls + 1
            /\ pc' = "saving"
            /\ UNCHANGED resp
       ELSE /\ pipe' = SinglePipeline("failed", <<>>, FALSE)
            /\ resp' = ErrorResponse(500, "Analysis failed")
            /\ pc' = "done"
            /\ UNCHANGED saveCalls
  /\ UNCHANGED <<req, userResult, lookups, scrapeCalls, scoreCalls, debitLog,
                 singleVars_rest>>

\* SingleSaveReturn with the debit issued after a failed save too
SingleSaveReturn_debitAnyway(ok) ==
  /\ pc = "saving"
  /\ pipe' = SinglePipeline("debit", <<>>, ok)
  /\ pc' = "debit"
  /\ UNCHANGED <<req, userResult, lookups, scrapeCalls, scoreCalls, saveCalls,
                 debitLog, resp, singleVars_rest>>

\* saveCompleteAnalysis returns, and the debit is issued, or throws: answered
\* 500
SingleSaveReturn(ok) ==
  /\ pc = "saving"
  /\ IF ok
       THEN /\ pipe' = SinglePipeline("debit", <<>>, TRUE)
            /\ pc' = "debit"
            /\ UNCHANGED resp
       ELSE /\ pipe' = SinglePipeline("failed", <<>>, FALSE)
            /\ resp' = ErrorResponse(500, "Database operation failed")
            /\ pc' = "done"
  /\ UNCHANGED <<req, userResult, lookups, scrapeCalls, scoreCalls, saveCalls,
                 debitLog, singleVars_rest>>

\* the debit of the analysis returns: the response is built; or throws:
\* answered 500
SingleDebitReturn(ok) ==
  /\ pc = "debit"
  /\ debitLog' = Append(debitLog, [amount |-> creditCostPerAnalysis, ok |-> ok])
  /\ pipe' = SinglePipeline(IF ok THEN "accounted" ELSE "failed", <<>>, pipe[1].saved)
  /\ resp' = IF ok THEN SingleResult("run", creditCostPerAnalysis)
             ELSE ErrorResponse(500, "Database operation failed")
  /\ pc' = "done"
  /\ UNCHANGED <<req, userResult, lookups, scrapeCalls, scoreCalls, saveCalls,
                 singleVars_rest>>

NextSingle ==
  \/ SingleStart
  \/ \E isValid \in BOOLEAN, credits \in Credits : SingleLookupReturn(isValid, credits)
  \/ SingleLookupThrows
  \/ \E outcome \in SingleFetchOutcomes : SingleFetchReturn(outcome)
  \/ \E ok \in BOOLEAN : SingleChargeReturn(ok)
  \/ SingleScoreReturn
  \/ \E ok \in BOOLEAN : SingleSaveReturn(ok)
  \/ \E ok \in BOOLEAN : SingleDebitReturn(ok)

SpecSingle == InitSingle /\ [][NextSingle]_vars

-----------------------------------------------------------------------------
(* Properties of the bulk handler (specification Spec) *)

Responded == pc = "done" /\ resp.success

\* the outcome of every submitted position, in request order
Outcomes == [i \in DOMAIN req.profiles |-> processProfileComplete(req.profiles[i])]
SucceedingPositions == {i \in DOMAIN req.profiles : Outcomes[i].success}
FailingPositions == {i \in DOMAIN req.profiles : ~Outcomes[i].success}

\* what the aggregator holds once every outcome has been collected
ExpectedAggregate == collect([results |-> <<>>, errors |-> <<>>], Outcomes)

SeqBag(q) == [x \in {q[i] : i \in DOMAIN q} |-> Cardinality({i \in DOMAIN q : q[i] = x})]

\* C1: in every success response, successful + failed = total_requested
C1_OutcomesAddUp ==
  Responded => resp.successful + resp.failed = resp.total_requested

\* C2: in every success response credits_used is the number of successful
\* outcomes times 1; a failed pipeline adds nothing to credits_used nor to the
\* amount of the ledger debit
C2_CreditsUsed ==
  Responded =>
    /\ resp.credits_used = resp.successful * 1
    /\ resp.credits_used = Cardinality(SucceedingPositions)
    /\ \A k \in DOMAIN debitLog :
         debitLog[k].amount = Cardinality(SucceedingPositions)

C2_Witness ==
  /\ Responded
  /\ resp.successful >= 2
  /\ FailingPositions # {}
  /\ debitLog # <<>>
  /\ resp.credits_used = resp.successful

\* C3: the identifiers of the success outcomes and of the failure outcomes of
\* a success response form exactly the multiset of submitted identifiers
C3_IdentifierCoverage ==
  Responded =>
    SeqBag([i \in DOMAIN resp.results |-> resp.results[i].profile.username])
      (+) SeqBag([i \in DOMAIN resp.errors |-> resp.errors[i].profile])
    = SeqBag(req.profiles)

\* the request violates validation, in the words of the claim
ViolatesValidation(r) ==
  \/ r.kind \in {"missing", "notArray"}
  \/ Len(r.profiles) = 0
  \/ Len(r.profiles) > 50
  \/ r.analysis_type # "light"
  \/ r.business_id = Undefined
  \/ r.user_id = Undefined

\* C4: a request that violates validation is answered 4xx before any side
\* effect: no lookup, no fetch, no scoring call, no debit, no usage increment
C4_RejectedBeforeSideEffects ==
  ViolatesValidation(req) =>
    /\ pc \in {"received", "done"}
    /\ pc = "done" => (resp.status \in 400..499 /\ ~resp.success)
    /\ lookups = 0
    /\ scrapeCalls = 0
    /\ scoreCalls = 0
    /\ debitLog = <<>>
    /\ usageLog = <<>>

C4_Witness ==
  /\ pc = "done"
  /\ resp.status = 400
  /\ Len(req.profiles) = 51
  /\ req.analysis_type = "light"
  /\ req.business_id # Undefined
  /\ req.user_id # Undefined
  /\ lookups = 0

\* C5: a failing pipeline is recorded as a failure of its identifier with its
\* reason and of nothing else; every other pipeline reaches its own outcome and
\* every window is executed, each after the pause that follows the one before
C5_FailureContained ==
  Responded =>
    /\ \A i \in FailingPositions :
         \E k \in DOMAIN resp.errors :
           resp.errors[k] = [profile |-> req.profiles[i], error |-> Outcomes[i].error]
    /\ Len(resp.errors) = Cardinality(FailingPositions)
    /\ Len(resp.results) = Cardinality(SucceedingPositions)
    /\ scrapeCalls = Len(req.profiles)
    /\ pauses = Len(smartBatches) - 1

\* C6: whether the ledger debit fails or succeeds, the response is the success
\* response with the same results, errors, successful and failed
C6_DebitFailureKeepsResults ==
  (pc = "done" /\ debitLog # <<>>) =>
    /\ resp.success
    /\ resp.status = 200
    /\ resp.results = ExpectedAggregate.results
    /\ resp.errors = ExpectedAggregate.errors
    /\ resp.successful = Len(ExpectedAggregate.results)
    /\ resp.failed = Len(ExpectedAggregate.errors)

C6_Witness ==
  /\ pc = "done"
  /\ debitLog # <<>>
  /\ ~debitLog[1].ok
  /\ resp.success
  /\ resp.successful >= 1
  /\ resp.failed >= 1

\* C7: a usage increment that fails, by a non-OK status or by raising, is not
\* fatal: every increment is still issued, the debit is attempted and the
\* response is the success response with all results
C7_UsageFailureNotFatal ==
  (pc = "done" /\ \E k \in DOMAIN usageLog : usageLog[k] \in {"nonok", "throw"}) =>
    /\ resp.success
    /\ Len(usageLog) = Len(results)
    /\ debitLog # <<>>
    /\ resp.results = ExpectedAggregate.results

\* the fetched profiles for which no pre-screen rule fires
FetchedPositions ==
  {i \in DOMAIN req.profiles :
     scrapeInstagramProfile(extractUsername(req.profiles[i])).ok}
UnscreenedPositions ==
  {i \in FetchedPositions :
     preScreenProfile(
       scrapeInstagramProfile(extractUsername(req.profiles[i])).profile).shouldProcess}

\* C8: the number of scoring calls of a request is the number of fetched
\* profiles for which no pre-screen rule fires
C8_PreScreenedNeverScored ==
  Responded => scoreCalls = Cardinality(UnscreenedPositions)

-----------------------------------------------------------------------------
(* Properties of preScreenProfile (specification SpecPreScreen) *)

FirstRule(p) == p.isPrivate /\ p.followersCount < 1000
SecondRule(p) == p.followersCount = 0
ThirdRule(p) ==
  /\ p.followersCount > 1000
  /\ IF p.followingCount = 0 THEN 999 * 10 < 1
     ELSE p.followersCount * 10 < p.followingCount

\* C9: the decision of preScreenProfile, in priority order: private with fewer
\* than 1000 followers gives 15; else no followers gives 0; else a ratio below
\* 0.1 with more than 1000 followers gives 20; else process, with no score
C9_PreScreenDecision ==
  pc = "prescreened" =>
    /\ FirstRule(psIn) => psOut = [shouldProcess |-> FALSE, earlyScore |-> 15]
    /\ (~FirstRule(psIn) /\ SecondRule(psIn)) =>
         psOut = [shouldProcess |-> FALSE, earlyScore |-> 0]
    /\ (~FirstRule(psIn) /\ ~SecondRule(psIn) /\ ThirdRule(psIn)) =>
         psOut = [shouldProcess |-> FALSE, earlyScore |-> 20]
    /\ (~FirstRule(psIn) /\ ~SecondRule(psIn) /\ ~ThirdRule(psIn)) =>
         psOut = [shouldProcess |-> TRUE]
    /\ (psIn.isPrivate /\ psIn.followersCount = 0) => psOut.earlyScore = 15
    /\ psIn.followersCount = 1000 => psOut = [shouldProcess |-> TRUE]
    /\ (~psIn.isPrivate /\ psIn.followersCount > 0
          /\ psIn.followersCount * 10 = psIn.followingCount) =>
         psOut = [shouldProcess |-> TRUE]

C9_Witness ==
  /\ pc = "prescreened"
  /\ psIn.isPrivate
  /\ psIn.followersCount = 0
  /\ psOut = [shouldProcess |-> FALSE, earlyScore |-> 15]

-----------------------------------------------------------------------------
(* Properties of the decode (specification SpecDecode) *)

\* the positions of the text where "overall_score": is followed, after white
\* space, by digits, and where "summary_text": is followed by a quoted text
ScorePositions(text) ==
  {i \in DOMAIN text :
     /\ text[i] = KS
     /\ SkipWS(text, i + 1) <= Len(text)
     /\ text[SkipWS(text, i + 1)] \in Digits}
SummaryPositions(text) ==
  {i \in DOMAIN text :
     /\ text[i] = KT
     /\ SkipWS(text, i + 1) <= Len(text)
     /\ Quoted(text[SkipWS(text, i + 1)]) # Undefined}

ScoreAt(text, i) ==
  DigitsValue(text, SkipWS(text, i + 1), DigitRunEnd(text, SkipWS(text, i + 1)))
SummaryAt(text, i) == Quoted(text[SkipWS(text, i + 1)])

First(S) == CHOOSE i \in S : \A j \in S : i <= j

\* C10 as stated: when the strict decode fails, nothing is thrown, and for
\* every "overall_score": N and every "summary_text": "S" the text contains,
\* the result has score N and summary S
C10_AnyOccurrence ==
  (pc = "decoded" /\ strictDecode(content).threw) =>
    /\ ~decoded.threw
    /\ \A i \in ScorePositions(content) :
         decoded.overall_score = JsNumber(ScoreAt(content, i))
    /\ \A i \in SummaryPositions(content) :
         decoded.summary_text = JsString(SummaryAt(content, i))

\* C10, amended: when the strict decode fails, nothing is thrown, and the
\* result has the score N of the first "overall_score": N of the text and the
\* summary S of the first "summary_text": "S" of the text
C10_FirstOccurrence ==
  (pc = "decoded" /\ strictDecode(content).threw) =>
    /\ ~decoded.threw
    /\ ScorePositions(content) # {} =>
         decoded.overall_score =
           JsNumber(ScoreAt(content, First(ScorePositions(content))))
    /\ SummaryPositions(content) # {} =>
         decoded.summary_text =
           JsString(SummaryAt(content, First(SummaryPositions(content))))

C10_Witness ==
  /\ pc = "decoded"
  /\ strictDecode(content).threw
  /\ ScorePositions(content) # {}
  /\ SummaryPositions(content) # {}
  /\ decoded = [threw |-> FALSE, overall_score |-> JsNumber(7),
                summary_text |-> JsString("ok")]

-----------------------------------------------------------------------------
(* Properties of the scoring output in the bulk handler (specification Spec) *)

\* the response of the scoring provider for the fetched position i
ProviderResponse(i) ==
  executeRequest(scrapeInstagramProfile(extractUsername(req.profiles[i])).profile)

\* the fetched positions whose scoring text fails the strict decode and holds
\* no "overall_score": N for the lenient decode to extract
UndecodablePositions ==
  {i \in FetchedPositions :
     /\ ProviderResponse(i).ok
     /\ strictDecode(ProviderResponse(i).content).threw
     /\ ScorePositions(ProviderResponse(i).content) = {}}

\* C11: an identifier whose scoring text fails both decodes is reported as a
\* failure of that identifier: it is among the errors, not among the results,
\* it adds nothing to credits_used, and the other successes are all reported
C11_UndecodableIsFailure ==
  Responded =>
    /\ \A i \in UndecodablePositions :
         /\ \E k \in DOMAIN resp.errors : resp.errors[k].profile = req.profiles[i]
         /\ \A k \in DOMAIN resp.results :
              resp.results[k].profile.username # extractUsername(req.profiles[i])
    /\ resp.successful = Cardinality(SucceedingPositions \ UndecodablePositions)
    /\ resp.credits_used <= Len(req.profiles) - Cardinality(UndecodablePositions)

-----------------------------------------------------------------------------
(* Properties of the decoded score (specification SpecDecode) *)

\* C12: whatever text the provider returned, a decode that does not throw
\* (the analysis of a success outcome) carries a score that is an integer of
\* the range 0..100
C12_ScoreInRange ==
  (pc = "decoded" /\ ~decoded.threw) =>
    /\ decoded.overall_score.t = "number"
    /\ decoded.overall_score.n \in 0..100

-----------------------------------------------------------------------------
(* Properties of the windows of the bulk handler (specification Spec) *)

\* the number of identifiers in the windows before window k (counted from 0)
RECURSIVE WindowOffset(_)
WindowOffset(k) ==
  IF k = 0 THEN 0 ELSE WindowOffset(k - 1) + Len(smartBatches[k])

\* C13: windows run one after the other: once a pipeline of window k has
\* issued its fetch, every pipeline of the windows before k has reached its
\* terminal state, whatever the interleaving inside a window
C13_WindowsSequential ==
  \A k \in 1..(Len(smartBatches) - 1) :
    scrapeCalls > WindowOffset(k) => terminated >= WindowOffset(k)

C13_Witness ==
  /\ pc = "window"
  /\ batchIndex = 1
  /\ scrapeCalls > WindowOffset(1)
  /\ terminated = WindowOffset(1)
  /\ \E i \in DOMAIN pipe : pipe[i].st # "done"

\* the pipelines of the current window that have not reached a terminal state
InFlightPipelines == {i \in DOMAIN pipe : pipe[i].st # "done"}

\* C14: at every moment of a request at most 8 pipelines are in flight:
\* started and not yet terminal
C14_BoundedInFlight ==
  /\ Cardinality(InFlightPipelines) <= 8
  /\ scrapeCalls - terminated <= 8

C14_Witness ==
  /\ Len(req.profiles) = 50
  /\ pc = "window"
  /\ batchIndex = 3
  /\ Cardinality(InFlightPipelines) = 8
  /\ scrapeCalls - terminated = 8

-----------------------------------------------------------------------------
(* Properties of createSmartBatches (specification SpecBatches) *)

\* the windows put one after the other
RECURSIVE Flatten(_)
Flatten(ws) == IF ws = <<>> THEN <<>> ELSE Head(ws) \o Flatten(Tail(ws))

\* C15: for the light analysis the windows are consecutive pieces of the
\* input: put one after the other they give the input back, every window but
\* the last holds 8 identifiers, the last holds 1 to 8, there are ceil(n / 8)
\* windows, and the empty input gives no window
C15_Partition ==
  (pc = "batched" /\ req.analysis_type = "light") =>
    /\ Flatten(batches) = req.profiles
    /\ \A k \in 1..(Len(batches) - 1) : Len(batches[k]) = 8
    /\ batches # <<>> => Len(batches[Len(batches)]) \in 1..8
    /\ Len(batches) = (Len(req.profiles) + 7) \div 8
    /\ req.profiles = <<>> => batches = <<>>

C15_Witness ==
  /\ pc = "batched"
  /\ req.analysis_type = "light"
  /\ Len(req.profiles) = 50
  /\ Len(batches) = 7
  /\ Len(batches[7]) = 2
  /\ Flatten(batches) = req.profiles

\* the loop over the windows has ended
LoopEnded ==
  \/ pc \in {"keys", "usage", "debit"}
  \/ pc = "done" /\ scrapeCalls > 0

\* C16: a pause follows every window but the last: a window k runs after k
\* pauses; a pause is taken only with a window to come, when every pipeline
\* started so far has ended and before any of the next window starts; once
\* the loop has ended, Len(smartBatches) - 1 pauses have been taken; a request
\* that runs no window takes none
C16_PausesBetweenWindows ==
  /\ pc = "window" => pauses = batchIndex
  /\ pc = "pause" =>
       /\ pauses = batchIndex
       /\ batchIndex < Len(smartBatches) - 1
       /\ terminated = WindowOffset(batchIndex + 1)
       /\ scrapeCalls = WindowOffset(batchIndex + 1)
  /\ LoopEnded => pauses = Len(smartBatches) - 1
  /\ (pc = "done" /\ scrapeCalls = 0) => pauses = 0

C16_Witness ==
  /\ Responded
  /\ Len(smartBatches) = 7
  /\ pauses = 6
  /\ scrapeCalls = 50

-----------------------------------------------------------------------------
(* Properties of the accounting of the bulk handler (specification Spec) *)

\* every pipeline of every window has ended
AllWindowsCompleted ==
  /\ terminated = Len(req.profiles)
  /\ scrapeCalls = Len(req.profiles)
  /\ batchIndex = Len(smartBatches) - 1
  /\ InFlightPipelines = {}

\* C17: a request issues at most one ledger debit; the debit is pending or
\* made only when every window has completed; its amount is the number of
\* successes, which is the credits_used of the response
C17_SingleAggregateDebit ==
  /\ Len(debitLog) <= 1
  /\ pc = "debit" => (AllWindowsCompleted /\ debitLog = <<>>)
  /\ debitLog # <<>> =>
       /\ AllWindowsCompleted
       /\ debitLog[1].amount = Len(results)
       /\ debitLog[1].amount = Cardinality(SucceedingPositions)
       /\ Responded
       /\ debitLog[1].amount = resp.credits_used

C17_Witness ==
  /\ Responded
  /\ Len(smartBatches) = 7
  /\ Len(debitLog) = 1
  /\ debitLog[1].amount = 2
  /\ resp.credits_used = 2

\* C18: when the request gets to its debit and when it is answered with its
\* results, one usage increment has been issued for every success and none
\* besides: as many as the request has succeeding identifiers, all of them
\* before the debit is attempted and so whatever the debit does
C18_UsagePerSuccess ==
  /\ (pc = "debit" \/ Responded) =>
       /\ Len(usageLog) = Len(results)
       /\ Len(usageLog) = Cardinality(SucceedingPositions)
  /\ \A ok \in BOOLEAN :
       (debitLog # <<>> /\ debitLog[1].ok = ok) =>
         Len(usageLog) = Cardinality(SucceedingPositions)

C18_Witness ==
  /\ Responded
  /\ debitLog # <<>>
  /\ ~debitLog[1].ok
  /\ Len(usageLog) >= 2
  /\ Len(usageLog) = resp.successful
  /\ resp.failed >= 1

-----------------------------------------------------------------------------
(* Properties of the persistence in the bulk handler (specification Spec) *)

\* C19: every success the aggregator holds has been written to the backing
\* store before it was aggregated: at every moment at least as many writes
\* have been issued as the aggregator holds successes
C19_PersistedBeforeAggregation == Len(results) <= saveCalls

-----------------------------------------------------------------------------
(* Properties of two requests of one user (specification SpecTwoRequests) *)

PeerPassed(r) == peers[r].pc \in {"windows", "debit"} \/ peers[r].status = 200

RECURSIVE AppliedDebits(_)
AppliedDebits(R) ==
  IF R = {} THEN 0
  ELSE LET r == CHOOSE x \in R : TRUE IN
       (IF peers[r].debit = "ok" THEN peers[r].creditsUsed ELSE 0)
         + AppliedDebits(R \ {r})

\* C20: the credit check is a check of the balance read at the lookup and of
\* nothing later: a request that passed read a balance that covers its own
\* profiles and debits no more than these, and every debit is taken off the
\* balance in full, whatever the balance is by then
C20_AdvisoryCheck ==
  /\ \A r \in PeerIds :
       PeerPassed(r) =>
         /\ peers[r].credits >= peers[r].profileCount
         /\ peers[r].creditsUsed <= peers[r].profileCount
  /\ ledger.balance = ledger.opening - AppliedDebits(PeerIds)

\* the interleaving of C20: both requests read the same balance and pass the
\* check, and their debits together exceed that balance
C20_Witness ==
  /\ \A r \in PeerIds : peers[r].pc = "done" /\ peers[r].debit = "ok"
  /\ peers[1].credits = peers[2].credits
  /\ peers[1].credits = ledger.opening
  /\ peers[1].creditsUsed + peers[2].creditsUsed > peers[1].credits
  /\ ledger.balance < 0

-----------------------------------------------------------------------------
(* Properties of the responses of the bulk handler (specification Spec) *)

\* the fields of a response that report outcomes
OutcomeFields ==
  {"results", "errors", "successful", "failed", "total_requested",
   "credits_used", "credits_remaining"}

\* C21: a request answered 500 after its validation, whatever it had
\* aggregated by then, gets a failure response that carries no outcome
C21_ServerErrorCarriesNoResults ==
  (pc = "done" /\ resp.status = 500) =>
    /\ ~resp.success
    /\ DOMAIN resp \cap OutcomeFields = {}
    /\ lookups > 0

C21_Witness ==
  /\ pc = "done"
  /\ resp.status = 500
  /\ Len(results) >= 2
  /\ errors # <<>>
  /\ DOMAIN resp = {"status", "success", "error"}

-----------------------------------------------------------------------------
(* Properties of the single-profile handler (specification SpecSingle) *)

\* the request has been answered after its fetch failed
FetchFailedAnswered == pc = "done" /\ pipe[1].st = "failed" /\ pipe[1].error # <<>>

\* the fetch failures that say the profile does not exist
NotFoundFailures == {NotFoundMessage, NotExistMessage}

\* C22 as stated: after a failed fetch a debit is issued if and only if the
\* failure is a not-found failure; then it is one debit of 1 credit and the
\* response is 404; otherwise the response is 400; in neither case is the
\* profile scored or anything saved
C22_NotFoundAnswered404 ==
  FetchFailedAnswered =>
    /\ debitLog # <<>> <=> pipe[1].error \in NotFoundFailures
    /\ pipe[1].error \in NotFoundFailures =>
         /\ Len(debitLog) = 1
         /\ debitLog[1].amount = 1
         /\ resp.status = 404
    /\ pipe[1].error \notin NotFoundFailures => resp.status = 400
    /\ ~resp.success
    /\ scoreCalls = 0
    /\ saveCalls = 0

\* C22, amended: as above, but the response to a not-found failure is 404
\* when its debit succeeded and 400 when its debit failed
C22_NotFoundDebited ==
  FetchFailedAnswered =>
    /\ debitLog # <<>> <=> pipe[1].error \in NotFoundFailures
    /\ pipe[1].error \in NotFoundFailures =>
         /\ Len(debitLog) = 1
         /\ debitLog[1].amount = 1
         /\ resp.status = IF debitLog[1].ok THEN 404 ELSE 400
    /\ pipe[1].error \notin NotFoundFailures => resp.status = 400
    /\ ~resp.success
    /\ scoreCalls = 0
    /\ saveCalls = 0

C22_Witness ==
  /\ FetchFailedAnswered
  /\ pipe[1].error = NotExistMessage
  /\ debitLog = <<[amount |-> 1, ok |-> TRUE]>>
  /\ resp.status = 404
  /\ scoreCalls = 0

\* C30: the debit of a scored profile is pending or made only when the save
\* has succeeded; a failed save is answered 500 with no debit; a failed debit
\* after the save is answered 500 too, without the analysis, the run staying
\* saved
C30_SaveBeforeDebit ==
  /\ pc = "debit" => (pipe[1].saved /\ saveCalls = 1 /\ debitLog = <<>>)
  /\ (scoreCalls > 0 /\ debitLog # <<>>) => pipe[1].saved
  /\ (pc = "done" /\ saveCalls > 0 /\ ~pipe[1].saved) =>
       /\ debitLog = <<>>
       /\ resp.status = 500
       /\ ~resp.success
  /\ (pc = "done" /\ pipe[1].saved /\ ~debitLog[1].ok) =>
       /\ resp.status = 500
       /\ ~resp.success
       /\ "data" \notin DOMAIN resp

C30_Witness ==
  /\ pc = "done"
  /\ pipe[1].saved
  /\ saveCalls = 1
  /\ debitLog = <<[amount |-> 1, ok |-> FALSE]>>
  /\ resp.status = 500

-----------------------------------------------------------------------------
(* Properties of the pipeline of the bulk handler (specification Spec) *)

\* how far a pipeline has come
Rank(p) == CASE p.st = "fetching" -> 1 [] p.st = "scoring" -> 2 [] p.st = "done" -> 3

\* the fetch of pipeline i of the current window succeeds
FetchSucceeds(i) == scrapeInstagramProfile(extractUsername(batch[i])).ok

\* the pipelines of the current window whose fetch failed, now ended
FailedAtFetch == {i \in DOMAIN pipe : pipe[i].st = "done" /\ ~FetchSucceeds(i)}

\* C23: in every step inside a window each pipeline stays or moves forward;
\* an ended pipeline does not change any more; a pipeline is scoring, or has
\* been scored, only with its fetch succeeded; a step that ends a pipeline at
\* its fetch issues no scoring call; nothing is issued for an ended pipeline
C23_ForwardOnly ==
  [][(pc = "window" /\ pc' = "window" /\ batchIndex' = batchIndex) =>
       /\ DOMAIN pipe' = DOMAIN pipe
       /\ \A i \in DOMAIN pipe :
            /\ Rank(pipe'[i]) >= Rank(pipe[i])
            /\ pipe[i].st = "done" => pipe'[i] = pipe[i]
            /\ pipe'[i].st = "scoring" => FetchSucceeds(i)
            /\ (pipe[i].st # "done" /\ pipe'[i].st = "done" /\ pipe'[i].out.success) =>
                 (pipe[i].st = "scoring" /\ FetchSucceeds(i))
       /\ scoreCalls' - scoreCalls =
            Cardinality({i \in DOMAIN pipe :
                           pipe[i].st = "fetching" /\ pipe'[i].st = "scoring"})
       /\ scrapeCalls' = scrapeCalls
       /\ saveCalls' = saveCalls]_vars

C23_Witness ==
  /\ pc = "window"
  /\ FailedAtFetch # {}
  /\ \E j \in DOMAIN pipe : pipe[j].st = "done" /\ pipe[j].out.success
  /\ \E j \in DOMAIN pipe : pipe[j].st = "scoring"
  /\ scoreCalls < scrapeCalls

-----------------------------------------------------------------------------
(* Properties of the credit check of the bulk handler (specification Spec) *)

\* the lookups of a valid request have returned a valid user
PreFlightRead == ValidationError(req) = "none" /\ userResult.isValid

\* C24: a valid request of a valid user whose balance is below the number of
\* its profiles is answered 402 with no fetch, no scoring call, no debit and
\* no usage increment; with a balance equal to that number it is not answered
\* 402 and every one of its profiles is fetched
C24_InsufficientCredits ==
  /\ (PreFlightRead /\ userResult.credits < Len(req.profiles)) =>
       /\ pc = "done"
       /\ resp.status = 402
       /\ ~resp.success
       /\ scrapeCalls = 0
       /\ scoreCalls = 0
       /\ debitLog = <<>>
       /\ usageLog = <<>>
  /\ (PreFlightRead /\ userResult.credits = Len(req.profiles)) =>
       /\ scrapeCalls >= 1
       /\ pc = "done" => (resp.status # 402 /\ scrapeCalls = Len(req.profiles))

C24_Witness ==
  /\ PreFlightRead
  /\ Len(req.profiles) = 50
  /\ userResult.credits = 9
  /\ pc = "done"
  /\ resp.status = 402
  /\ scrapeCalls = 0

\* C25: in every success response credits_remaining is the balance read by
\* the lookup minus credits_used, with the debit made, failed or not issued;
\* after a failed debit it is below the balance although nothing was debited
C25_RemainingFromSnapshot ==
  Responded =>
    /\ resp.credits_remaining = userResult.credits - resp.credits_used
    /\ (debitLog # <<>> /\ ~debitLog[1].ok) =>
         resp.credits_remaining < userResult.credits
    /\ debitLog = <<>> => resp.credits_remaining = userResult.credits

C25_Witness ==
  /\ Responded
  /\ debitLog # <<>>
  /\ ~debitLog[1].ok
  /\ resp.credits_used >= 2
  /\ resp.credits_remaining = userResult.credits - resp.credits_used

\* C26: in every success response credits_used is at most the balance read by
\* the lookup, so is the amount of the debit, and credits_remaining is not
\* negative
C26_UsedWithinSnapshot ==
  Responded =>
    /\ resp.credits_used <= userResult.credits
    /\ \A k \in DOMAIN debitLog : debitLog[k].amount <= userResult.credits
    /\ resp.credits_remaining >= 0

C26_Witness ==
  /\ Responded
  /\ resp.credits_used >= 1
  /\ resp.credits_used = userResult.credits
  /\ resp.credits_remaining = 0
  /\ debitLog # <<>>

\* C27: a success response with no success follows no debit and no usage
\* increment, and reports successful 0, credits_used 0 and the balance read by
\* the lookup as credits_remaining
C27_NothingToAccount ==
  (Responded /\ results = <<>>) =>
    /\ debitLog = <<>>
    /\ usageLog = <<>>
    /\ resp.successful = 0
    /\ resp.credits_used = 0
    /\ resp.credits_remaining = userResult.credits

C27_Witness ==
  /\ Responded
  /\ results = <<>>
  /\ scrapeCalls = 2
  /\ resp.failed >= 1
  /\ resp.credits_used = 0
  /\ userResult.credits >= 2
  /\ debitLog = <<>>
  /\ usageLog = <<>>

-----------------------------------------------------------------------------
(* Properties of the order of the outcomes (specification Spec) *)

\* f[i] for the positions i of S among 1..n, in ascending order
RECURSIVE PickSeq(_, _, _)
PickSeq(n, S, f) ==
  IF n = 0 THEN <<>>
  ELSE PickSeq(n - 1, S, f) \o (IF n \in S THEN <<f[n]>> ELSE <<>>)

\* the failing positions whose failure the aggregator records
RecordedFailures ==
  {i \in FailingPositions :
     ~Falsy(Outcomes[i].profile) /\ ~Falsy(Outcomes[i].error)}

\* C28: the results of a success response are the succeeding profiles in the
\* order of the request, and its errors are the failed profiles it records in
\* the order of the request, whatever the order the pipelines ended in
C28_RequestOrder ==
  Responded =>
    /\ [k \in DOMAIN resp.results |-> resp.results[k].profile.username]
         = PickSeq(Len(req.profiles), SucceedingPositions,
                   [i \in DOMAIN req.profiles |-> extractUsername(req.profiles[i])])
    /\ [k \in DOMAIN resp.errors |-> resp.errors[k].profile]
         = PickSeq(Len(req.profiles), RecordedFailures, req.profiles)

C28_Witness ==
  /\ Responded
  /\ Len(req.profiles) = 9
  /\ [k \in DOMAIN resp.results |-> resp.results[k].profile.username]
       = <<"a", "p", "a", "m", "a", "a">>
  /\ [k \in DOMAIN resp.errors |-> resp.errors[k].profile] = <<"nf", "s">>


-----------------------------------------------------------------------------
(* C29 *)

Accepted == pc \in {"window", "pause", "keys", "usage", "debit"}

Hung == \E i \in DOMAIN req.profiles : req.profiles[i] = HangingId

\* the window of the identifier whose fetch hangs
HangWindow ==
  CHOOSE k \in 0..(Len(smartBatches) - 1) :
    \E i \in DOMAIN smartBatches[k + 1] : smartBatches[k + 1][i] = HangingId

\* every pipeline of the hanging window but the hanging one is terminal
OthersTerminal ==
  /\ Hung
  /\ pc = "window"
  /\ batchIndex = HangWindow
  /\ \A i \in DOMAIN pipe :
       IF batch[i] = HangingId THEN pipe[i].st = "fetching"
                               ELSE pipe[i].st = "done"

\* C29: when every external call returns or fails, an accepted request is
\* answered in the end, once, with every window processed; a request with a
\* fetch that never returns stays in the window of that fetch for ever: no
\* later window starts, no response is sent, and every other pipeline of
\* that window reaches its terminal state
C29_Termination ==
  /\ (Accepted /\ ~Hung) ~> (pc = "done" /\ resp # NoResponse /\ AllWindowsCompleted)
  /\ [][resp # NoResponse => resp' = resp]_vars
  /\ []((pc = "done") <=> (resp # NoResponse))
  /\ []((Accepted /\ Hung) =>
          /\ pc \in {"window", "pause"}
          /\ batchIndex <= HangWindow
          /\ batchIndex = HangWindow => pc = "window"
          /\ scrapeCalls <= WindowOffset(HangWindow) + Len(smartBatches[HangWindow + 1]))
  /\ []((Hung /\ scrapeCalls > 0) => resp = NoResponse)
  /\ (Accepted /\ Hung) ~> OthersTerminal
  /\ [][OthersTerminal => UNCHANGED vars]_vars

\* the first window of the nine-profile request with the hanging fetch: seven
\* pipelines terminal, the eighth still fetching, the ninth never started
C29_Witness ==
  /\ req.profiles = LongHangProfiles
  /\ OthersTerminal
  /\ Cardinality({i \in DOMAIN pipe : pipe[i].st = "done"}) = lightBatchSize - 1
  /\ scrapeCalls = lightBatchSize

====
